---- MODULE Spec2Model ----
(***************************************************************************)
(* Plant Village Orange dataset tools: the Reorganizer                     *)
(* (scripts/reorganize_dataset.py), the Split Fixer (scripts/fix_splits.py)*)
(* and the COCO Converter (scripts/convert_to_coco.py), modelled as state  *)
(* machines over the dataset's directory tree.                             *)
(*                                                                         *)
(* File names and text lines are sequences of one-character strings, so    *)
(* that stem(), lower(), glob matching, number formatting and CSV parsing  *)
(* are computed character by character as the code computes them.          *)
(* A directory is a function from file names to file contents.             *)
(***************************************************************************)
EXTENDS Integers, Sequences, FiniteSets, TLC

VARIABLES
    source,     \* raw source trees, per category: <root>/<source name>/without_augmentation
    alldir,     \* <root>/all: the externally supplied split files
    target,     \* canonical layout, per category: images/ json/ csv/ sets/ labelmap.json
    runs,       \* per category, how many times reorganize_category has run
    pc,         \* the job that ran last or is running; "idle" before any whole job
    fixer,      \* Split Fixer: the mapping it built and, per split file, its unmapped lines
    conv        \* Converter: arguments, loop position, per_category_results, output files, exit code

vars == <<source, alldir, target, runs, pc, fixer, conv>>

-----------------------------------------------------------------------------
(* Bounds of the model *)

\* longest annotation list of a source JSON
MaxBoxes == 2

-----------------------------------------------------------------------------
(* Generic helpers *)

NoFile == "absent"

\* dict / directory update: d[k] = v
Put(d, k, v) == [x \in (DOMAIN d) \cup {k} |-> IF x = k THEN v ELSE d[x]]

EmptyDir == <<>>

RECURSIVE Perms(_)
\* every listing order of a set of directory entries
Perms(S) ==
    IF S = {} THEN {<<>>}
    ELSE UNION {{<<x>> \o p : p \in Perms(S \ {x})} : x \in S}

RECURSIVE SeqsUpTo(_, _)
SeqsUpTo(S, n) ==
    IF n = 0 THEN {<<>>}
    ELSE LET shorter == SeqsUpTo(S, n - 1)
         IN shorter \cup {s \o <<x>> : s \in {t \in shorter : Len(t) = n - 1}, x \in S}

Abs(n) == IF n < 0 THEN -n ELSE n

-----------------------------------------------------------------------------
(* Strings *)

\* str.lower() on the letters the model uses
LowerChar(c) ==
    CASE c = "A" -> "a" [] c = "B" -> "b" [] c = "C" -> "c" [] c = "E" -> "e" [] c = "F" -> "f"
      [] c = "G" -> "g" [] c = "H" -> "h" [] c = "I" -> "i" [] c = "J" -> "j"
      [] c = "L" -> "l" [] c = "M" -> "m" [] c = "P" -> "p" [] c = "R" -> "r"
      [] c = "U" -> "u" [] c = "X" -> "x" [] c = "Y" -> "y"
      [] OTHER -> c

Lower(s) == [i \in 1..Len(s) |-> LowerChar(s[i])]

\* str.rfind('.') as a 1-based position, 0 when there is no '.'
LastDot(s) ==
    LET dots == {i \in 1..Len(s) : s[i] = "."}
    IN IF dots = {} THEN 0 ELSE CHOOSE i \in dots : \A j \in dots : j <= i

\* pathlib's PurePath.stem of a name without directory part: the name up to
\* its last '.', unless that '.' is the first or the last character
Stem(name) ==
    LET i == LastDot(name)
    IN IF i > 1 /\ i < Len(name) THEN SubSeq(name, 1, i - 1) ELSE name

HasDot(s) == \E i \in 1..Len(s) : s[i] = "."

EndsWith(s, suffix) ==
    /\ Len(s) >= Len(suffix)
    /\ SubSeq(s, Len(s) - Len(suffix) + 1, Len(s)) = suffix

\* Path.glob("*" + suffix) on a case-sensitive file system
Glob(dir, suffix) == {n \in DOMAIN dir : EndsWith(n, suffix)}

\* x in s, for strings
Contains(s, x) ==
    \E i \in 1..(Len(s) - Len(x) + 1) : SubSeq(s, i, i + Len(x) - 1) = x

RECURSIVE Split(_, _)
\* str.split(sep) for a one-character separator
Split(s, sep) ==
    LET hits == {i \in 1..Len(s) : s[i] = sep}
    IN IF hits = {} THEN <<s>>
       ELSE LET i == CHOOSE k \in hits : \A j \in hits : k <= j
            IN <<SubSeq(s, 1, i - 1)>> \o Split(SubSeq(s, i + 1, Len(s)), sep)

RECURSIVE Join(_, _)
Join(parts, sep) ==
    IF Len(parts) = 0 THEN <<>>
    ELSE IF Len(parts) = 1 THEN parts[1]
    ELSE parts[1] \o <<sep>> \o Join(Tail(parts), sep)

DotJson == <<".", "j", "s", "o", "n">>
DotCsv  == <<".", "c", "s", "v">>
ExtJPG  == <<".", "J", "P", "G">>
ExtJpg  == <<".", "j", "p", "g">>
ExtPng  == <<".", "p", "n", "g">>

-----------------------------------------------------------------------------
(* Numbers: a JSON number is an int or a float; the model keeps one decimal *)
(* digit, as tenths.                                                        *)

IntNum(n)   == [kind |-> "int",   tenths |-> 10 * n]
FloatNum(t) == [kind |-> "float", tenths |-> t]

\* Python's == on numbers compares values, not types
NumEq(a, b) == a.tenths = b.tenths

DigitChar(d) ==
    CASE d = 0 -> "0" [] d = 1 -> "1" [] d = 2 -> "2" [] d = 3 -> "3" [] d = 4 -> "4"
      [] d = 5 -> "5" [] d = 6 -> "6" [] d = 7 -> "7" [] d = 8 -> "8" [] d = 9 -> "9"

IsDigit(c) == c \in {"0", "1", "2", "3", "4", "5", "6", "7", "8", "9"}

DigitVal(c) == CHOOSE d \in 0..9 : DigitChar(d) = c

RECURSIVE NatToStr(_)
NatToStr(n) ==
    IF n < 10 THEN <<DigitChar(n)>>
    ELSE NatToStr(n \div 10) \o <<DigitChar(n % 10)>>

\* f"{v}": str() of an int, repr() of a float
FormatNum(v) ==
    LET a    == Abs(v.tenths)
        sign == IF v.tenths < 0 THEN <<"-">> ELSE <<>>
    IN IF v.kind = "int"
       THEN sign \o NatToStr(a \div 10)
       ELSE sign \o NatToStr(a \div 10) \o <<".">> \o <<DigitChar(a % 10)>>

RECURSIVE StrToNat(_)
StrToNat(s) ==
    IF Len(s) = 0 THEN 0
    ELSE 10 * StrToNat(SubSeq(s, 1, Len(s) - 1)) + DigitVal(s[Len(s)])

AllDigits(s) == \A i \in 1..Len(s) : IsDigit(s[i])

\* Python's None, where a number was looked for
NoValue == [kind |-> "none", tenths |-> 0]

\* float(text): [sign] digits [ '.' [digit] ]; anything else raises ValueError,
\* which is NoValue here
ParseFloat(text) ==
    LET neg   == Len(text) > 0 /\ text[1] = "-"
        body  == IF neg \/ (Len(text) > 0 /\ text[1] = "+") THEN Tail(text) ELSE text
        parts == Split(body, ".")
        whole == parts[1]
        frac  == IF Len(parts) = 2 THEN parts[2] ELSE <<>>
        ok    == /\ Len(parts) \in {1, 2}
                 /\ AllDigits(whole) /\ AllDigits(frac)
                 /\ Len(whole) + Len(frac) > 0
                 /\ Len(frac) <= 1
        mag   == 10 * StrToNat(whole) + StrToNat(frac)
    IN IF ok THEN FloatNum(IF neg THEN -mag ELSE mag) ELSE NoValue

-----------------------------------------------------------------------------
(* File contents *)

\* an image file; bytes names the picture the file holds
ImageFile(b) == [kind |-> "image", bytes |-> b, width |-> 256, height |-> 256]

\* a per-image JSON file: json.load() raises when it is not well-formed.
\* images[1] carries the original file name (pvc_filename / original_filename)
JsonFile(ok, anns, imgs) ==
    [kind |-> "json", wellformed |-> ok, annotations |-> anns, images |-> imgs]

MalformedJson == JsonFile(FALSE, <<>>, <<>>)

\* one entry of a JSON's "annotations"; has_bbox is FALSE when the 'bbox' key
\* is missing (ann['bbox'] raises KeyError)
Ann(bbox, cat) == [has_bbox |-> TRUE, bbox |-> bbox, category_id |-> cat]

BrokenAnn == [has_bbox |-> FALSE, bbox |-> <<>>, category_id |-> 1]

Ann1 == Ann(<<IntNum(10), FloatNum(205), IntNum(30), FloatNum(45)>>, 3)
Ann2 == Ann(<<IntNum(0), FloatNum(-15), FloatNum(70), IntNum(12)>>, 0)

Oranges     == <<"o", "r", "a", "n", "g", "e", "s">>
Backgrounds == <<"b", "a", "c", "k", "g", "r", "o", "u", "n", "d", "s">>

\* the two category directories main() works on
Categories == {Oranges, Backgrounds}

NoDir == [exists |-> FALSE, files |-> EmptyDir]

Dir(files) == [exists |-> TRUE, files |-> files]

\* a category directory that does not exist yet
NoTree ==
    [exists |-> FALSE, dirs |-> {}, images |-> EmptyDir, json |-> EmptyDir,
     csv |-> EmptyDir, sets |-> EmptyDir, labelmap |-> <<>>]

-----------------------------------------------------------------------------
(* Reorganizer: scripts/reorganize_dataset.py *)

CsvHeader ==
    <<"#", "i", "t", "e", "m", ",", "x", ",", "y", ",", "w", "i", "d", "t", "h", ",",
      "h", "e", "i", "g", "h", "t", ",", "l", "a", "b", "e", "l">>

\* label = 1 if category_id != 0 else 0
LabelOf(category_id) == IF category_id # 0 THEN 1 ELSE 0

\* a faulty row: height written before width
CsvRowSwapped(idx, ann) ==
    Join(<<NatToStr(idx), FormatNum(ann.bbox[1]), FormatNum(ann.bbox[2]),
           FormatNum(ann.bbox[4]), FormatNum(ann.bbox[3]),
           NatToStr(LabelOf(ann.category_id))>>, ",")

\* f"{idx},{bbox[0]},{bbox[1]},{bbox[2]},{bbox[3]},{label}"
CsvRow(idx, ann) ==
    Join(<<NatToStr(idx), FormatNum(ann.bbox[1]), FormatNum(ann.bbox[2]),
           FormatNum(ann.bbox[3]), FormatNum(ann.bbox[4]),
           NatToStr(LabelOf(ann.category_id))>>, ",")

RECURSIVE RowsWritten(_, _)
\* the rows the enumerate() loop writes before it ends or ann['bbox'] raises
RowsWritten(anns, idx) ==
    IF anns = <<>> THEN <<>>
    ELSE IF ~Head(anns).has_bbox THEN <<>>
    ELSE <<CsvRow(idx, Head(anns))>> \o RowsWritten(Tail(anns), idx + 1)

\* json_to_csv: the lines the CSV file holds when the function returns or raises
JsonToCsv(json_data) ==
    IF json_data.annotations = <<>>
    THEN <<CsvHeader>>
    ELSE <<CsvHeader>> \o RowsWritten(json_data.annotations, 0)

\* a faulty write: the file is opened with 'a' and keeps what it held
AppendText(dir, name, lines) ==
    Put(dir, name, (IF name \in DOMAIN dir THEN dir[name] ELSE <<>>) \o lines)

\* with open(path, 'w') as f: f.write(...)
WriteText(dir, name, lines) == Put(dir, name, lines)

\* shutil.copy2(src, dst)
Copy2(dir, name, content) == Put(dir, name, content)

\* the JSON file process_directory pairs with an image: <stem>.json, else <name>.json
JsonFor(src, img) ==
    IF (Stem(img) \o DotJson) \in DOMAIN src
    THEN Stem(img) \o DotJson
    ELSE img \o DotJson

\* the body of process_directory's loop for one image file
ProcessImage(src, t, img) ==
    LET stem      == Stem(img)
        json_file == JsonFor(src, img)
        t1        == [t EXCEPT !.images = Copy2(@, img, src[img])]
    IN IF json_file \in DOMAIN src
       THEN LET t2 == [t1 EXCEPT !.json = Copy2(@, stem \o DotJson, src[json_file])]
            IN IF ~src[json_file].wellformed
               THEN t2      \* read_json_file raised: the warning is printed, no CSV
               ELSE [t2 EXCEPT !.csv = WriteText(@, stem \o DotCsv, JsonToCsv(src[json_file]))]
       ELSE [t1 EXCEPT !.csv = WriteText(@, stem \o DotCsv, <<CsvHeader>>)]

RECURSIVE ProcessFiles(_, _, _)
ProcessFiles(src, t, image_files) ==
    IF image_files = <<>> THEN t
    ELSE ProcessFiles(src, ProcessImage(src, t, Head(image_files)), Tail(image_files))

\* image_files = list(glob("*" + ext)); image_files.extend(glob("*" + ext.lower())),
\* each glob in whatever order the directory lists its entries
ImageListings(src, image_ext) ==
    {o1 \o o2 : o1 \in Perms(Glob(src, image_ext)),
                o2 \in Perms(Glob(src, Lower(image_ext)))}

\* the image files process_directory finds
FoundImages(src, image_ext) == Glob(src, image_ext) \cup Glob(src, Lower(image_ext))

\* main() calls reorganize_category with '.JPG' for oranges, '.jpg' for backgrounds
ImageExt(c) == IF c = Oranges THEN ExtJPG ELSE ExtJpg

\* images_dir.mkdir(parents=True, exist_ok=True) and its two siblings
MkCategoryDirs(t) ==
    [t EXCEPT !.exists = TRUE, !.dirs = @ \cup {"images", "json", "csv"}]

\* reorganize_category(source_dir, target_category_dir, category_name, image_ext):
\* the trees it can leave, one per listing order
ReorganizeCategoryResults(src, t, image_ext) ==
    IF src.without_aug.exists
    THEN {ProcessFiles(src.without_aug.files, MkCategoryDirs(t), order) :
            order \in ImageListings(src.without_aug.files, image_ext)}
    ELSE {MkCategoryDirs(t)}

MaxRuns == 2

ReorganizeCategory(c) ==
    /\ pc = "idle"
    /\ source[c].exists
    /\ runs[c] < MaxRuns
    /\ \E t \in ReorganizeCategoryResults(source[c], target[c], ImageExt(c)) :
          target' = [target EXCEPT ![c] = t]
    /\ runs' = [runs EXCEPT ![c] = @ + 1]
    /\ UNCHANGED <<source, alldir, pc, fixer, conv>>

-----------------------------------------------------------------------------
(* Ordering of strings: Python compares str by code point *)

AsciiOrder ==
    <<" ", "#", "(", ")", ",", "-", ".",
      "0", "1", "2", "3", "4", "5", "6", "7", "8", "9",
      "A", "B", "C", "E", "F", "G", "H", "I", "J", "L", "M", "P", "R", "U", "X", "Y",
      "_",
      "a", "b", "c", "d", "e", "f", "g", "h", "i", "j", "k", "l", "m", "n", "o",
      "p", "r", "s", "t", "u", "v", "w", "x", "y", "z">>

CharCode(c) == CHOOSE i \in 1..Len(AsciiOrder) : AsciiOrder[i] = c

RECURSIVE StrLess(_, _)
StrLess(a, b) ==
    IF Len(b) = 0 THEN FALSE
    ELSE IF Len(a) = 0 THEN TRUE
    ELSE IF a[1] = b[1] THEN StrLess(Tail(a), Tail(b))
    ELSE CharCode(a[1]) < CharCode(b[1])

RECURSIVE Sorted(_)
\* sorted(S) for a set of strings
Sorted(S) ==
    IF S = {} THEN <<>>
    ELSE LET m == CHOOSE x \in S : \A y \in S \ {x} : StrLess(x, y)
         IN <<m>> \o Sorted(S \ {m})

RECURSIVE Strip(_)
\* str.strip() for blanks
Strip(s) ==
    IF Len(s) > 0 /\ s[1] = " " THEN Strip(Tail(s))
    ELSE IF Len(s) > 0 /\ s[Len(s)] = " " THEN Strip(SubSeq(s, 1, Len(s) - 1))
    ELSE s

\* [line.strip() for line in f if line.strip()]
StrippedLines(lines) ==
    LET stripped == [i \in 1..Len(lines) |-> Strip(lines[i])]
    IN SelectSeq(stripped, LAMBDA l : l # <<>>)

Elems(s) == {s[i] : i \in 1..Len(s)}

\* the file <split>.txt of a sets/ or all/ directory
SplitFile(split) == <<split, ".txt">>

\* for split_file in ['train.txt', 'val.txt', 'test.txt']
SplitNames == <<"train", "val", "test">>

\* the split files fix_splits and reorganize_splits find under all/
SplitsPresent(all_files) ==
    {SplitNames[i] : i \in {k \in 1..Len(SplitNames) : SplitFile(SplitNames[k]) \in DOMAIN all_files}}

-----------------------------------------------------------------------------
(* COCO Converter: scripts/convert_to_coco.py *)

\* _read_split_list
ReadSplitList(sets, split) ==
    IF SplitFile(split) \notin DOMAIN sets THEN <<>>
    ELSE StrippedLines(sets[SplitFile(split)])

\* the column a lower-cased field name selects in a DictReader row; 0 when the
\* header has no such field (header names are distinct in every CSV of the model)
Column(header, key) ==
    LET hits == {i \in 1..Len(header) : Lower(header[i]) = key}
    IN IF hits = {} THEN 0 ELSE CHOOSE i \in hits : \A j \in hits : j <= i

RECURSIVE GetField(_, _, _)
\* get(row, *keys): the first key present in the row whose value is not None or ""
\* and parses as a float; a row shorter than the header holds None for the rest
GetField(header, fields, keys) ==
    IF keys = <<>> THEN NoValue
    ELSE LET col == Column(header, Head(keys))
             val == IF col = 0 \/ col > Len(fields) \/ fields[col] = <<>>
                    THEN NoValue
                    ELSE ParseFloat(fields[col])
         IN IF val # NoValue THEN val ELSE GetField(header, fields, Tail(keys))

KeysX == <<<<"x">>, <<"x", "c">>, <<"x", "_", "c", "e", "n", "t", "e", "r">>>>
KeysY == <<<<"y">>, <<"y", "c">>, <<"y", "_", "c", "e", "n", "t", "e", "r">>>>
KeysW == <<<<"w">>, <<"w", "i", "d", "t", "h">>, <<"d", "x">>>>
KeysH == <<<<"h">>, <<"h", "e", "i", "g", "h", "t">>, <<"d", "y">>>>

CsvBox(x, y, w, h) == [x |-> x, y |-> y, width |-> w, height |-> h]

RECURSIVE BoxesOfRows(_, _)
BoxesOfRows(header, rows) ==
    IF rows = <<>> THEN <<>>
    ELSE LET fields == Split(Head(rows), ",")
             x == GetField(header, fields, KeysX)
             y == GetField(header, fields, KeysY)
             w == GetField(header, fields, KeysW)
             h == GetField(header, fields, KeysH)
             rest == BoxesOfRows(header, Tail(rows))
         IN IF Head(rows) = <<>> THEN rest          \* DictReader skips blank rows
            ELSE IF x = NoValue \/ y = NoValue THEN rest
            ELSE IF w # NoValue /\ h # NoValue THEN <<CsvBox(x, y, w, h)>> \o rest
            ELSE rest

\* _parse_csv_boxes(csv_path)
ParseCsvBoxes(csvdir, name) ==
    IF name \notin DOMAIN csvdir THEN <<>>
    ELSE LET lines == SelectSeq(csvdir[name], LAMBDA l : l # <<>>)
         IN IF lines = <<>> THEN <<>>
            ELSE BoxesOfRows(Split(lines[1], ","), Tail(lines))

\* category[:-1] if category.endswith("s") else category
Singular(category) ==
    IF Len(category) > 0 /\ category[Len(category)] = "s"
    THEN SubSeq(category, 1, Len(category) - 1)
    ELSE category

\* the first existing of <stem>.jpg, <stem>.JPG, <stem>.png; <<>> when none exists
ImagePath(images, stem) ==
    IF (stem \o ExtJpg) \in DOMAIN images THEN stem \o ExtJpg
    ELSE IF (stem \o ExtJPG) \in DOMAIN images THEN stem \o ExtJPG
    ELSE IF (stem \o ExtPng) \in DOMAIN images THEN stem \o ExtPng
    ELSE <<>>

\* float multiplication of two tenths values, kept as hundredths
Area(box) == box.width.tenths * box.height.tenths

RECURSIVE AnnsOfBoxes(_, _, _)
AnnsOfBoxes(boxes, image_id, ann_id) ==
    IF boxes = <<>> THEN <<>>
    ELSE <<[id |-> ann_id, image_id |-> image_id, category_id |-> 1,
            bbox |-> <<Head(boxes).x, Head(boxes).y, Head(boxes).width, Head(boxes).height>>,
            area |-> Area(Head(boxes)), iscrowd |-> 0]>>
         \o AnnsOfBoxes(Tail(boxes), image_id, ann_id + 1)

\* a faulty choice of stems: a split list none of whose stems has an image is
\* widened to every image
FallbackWhenNoImage(t, split) ==
    LET listed == Elems(ReadSplitList(t.sets, split))
        all    == {Stem(n) : n \in Glob(t.images, ExtJpg)}
                    \cup {Stem(n) : n \in Glob(t.images, ExtJPG)}
                    \cup {Stem(n) : n \in Glob(t.images, ExtPng)}
    IN IF \A s \in listed : ImagePath(t.images, s) = <<>> THEN all ELSE listed

\* the stems of a (category, split) pair: the split list, else every image
ImageStems(t, split) ==
    LET listed == Elems(ReadSplitList(t.sets, split))
    IN IF listed = {}
       THEN {Stem(n) : n \in Glob(t.images, ExtJpg)}
              \cup {Stem(n) : n \in Glob(t.images, ExtJPG)}
              \cup {Stem(n) : n \in Glob(t.images, ExtPng)}
       ELSE listed

RECURSIVE CollectLoopCountsSkipped(_, _, _, _, _, _)
\* a faulty loop: a stem without image file uses up an image id
CollectLoopCountsSkipped(t, category, stems, image_id, ann_id, acc) ==
    IF stems = <<>> THEN acc
    ELSE LET stem == Head(stems)
             img  == ImagePath(t.images, stem)
         IN IF img = <<>>
            THEN CollectLoopCountsSkipped(t, category, Tail(stems), image_id + 1, ann_id, acc)
            ELSE LET boxes == ParseCsvBoxes(t.csv, stem \o DotCsv)
                     image == [id |-> image_id,
                               file_name |-> <<category, "images", img>>,
                               width |-> t.images[img].width,
                               height |-> t.images[img].height]
                 IN CollectLoopCountsSkipped(t, category, Tail(stems), image_id + 1,
                                ann_id + Len(boxes),
                                [acc EXCEPT
                                    !.images = Append(@, image),
                                    !.annotations = @ \o AnnsOfBoxes(boxes, image_id, ann_id)])

RECURSIVE CollectLoop(_, _, _, _, _, _)
\* the loop over sorted(image_stems) with its two counters
CollectLoop(t, category, stems, image_id, ann_id, acc) ==
    IF stems = <<>> THEN acc
    ELSE LET stem == Head(stems)
             img  == ImagePath(t.images, stem)
         IN IF img = <<>>
            THEN CollectLoop(t, category, Tail(stems), image_id, ann_id, acc)
            ELSE LET boxes == ParseCsvBoxes(t.csv, stem \o DotCsv)
                     image == [id |-> image_id,
                               file_name |-> <<category, "images", img>>,
                               width |-> t.images[img].width,
                               height |-> t.images[img].height]
                 IN CollectLoop(t, category, Tail(stems), image_id + 1,
                                ann_id + Len(boxes),
                                [acc EXCEPT
                                    !.images = Append(@, image),
                                    !.annotations = @ \o AnnsOfBoxes(boxes, image_id, ann_id)])

\* _collect_annotations_for_split(category_root, split, category_name)
CollectAnnotationsForSplit(t, split, category) ==
    CollectLoop(t, category, Sorted(ImageStems(t, split)), 1, 1,
                [images |-> <<>>, annotations |-> <<>>,
                 categories |-> <<[id |-> 1, name |-> Singular(category),
                                   supercategory |-> "plant"]>>])

\* category_to_cat[category]: enumerate(category_names, start=1), a later
\* duplicate overwriting an earlier one
CategoryToCat(category_names, category) ==
    CHOOSE i \in 1..Len(category_names) :
        /\ category_names[i] = category
        /\ \A j \in 1..Len(category_names) : category_names[j] = category => j <= i

Min(a, b) == IF a < b THEN a ELSE b

RECURSIVE MergeLoop(_, _, _, _, _, _)
\* the loop over zip(per_category, category_names), k the position in the zip
MergeLoop(per_category, category_names, k, next_image_id, next_ann_id, acc) ==
    IF k > Min(Len(per_category), Len(category_names)) THEN acc
    ELSE LET img_list == per_category[k].images
             ann_list == per_category[k].annotations
             category == category_names[k]
             \* id_map[old_id], filled in img_list order: a later image with the
             \* same old id overwrites an earlier one
             id_map(old) ==
                 LET hits == {i \in 1..Len(img_list) : img_list[i].id = old}
                 IN next_image_id + (CHOOSE i \in hits : \A j \in hits : j <= i) - 1
             new_imgs == [i \in 1..Len(img_list) |->
                            [img_list[i] EXCEPT !.id = next_image_id + i - 1]]
             new_anns == [i \in 1..Len(ann_list) |->
                            [ann_list[i] EXCEPT
                                !.id = next_ann_id + i - 1,
                                !.image_id = id_map(ann_list[i].image_id),
                                !.category_id = CategoryToCat(category_names, category)]]
         IN MergeLoop(per_category, category_names, k + 1,
                      next_image_id + Len(img_list), next_ann_id + Len(ann_list),
                      [acc EXCEPT !.images = @ \o new_imgs,
                                  !.annotations = @ \o new_anns])

RECURSIVE OldImageIds(_, _)
\* the image_id of every annotation of per_category[k..], before the merge
OldImageIds(per_category, k) ==
    IF k > Len(per_category) THEN <<>>
    ELSE [i \in 1..Len(per_category[k].annotations) |->
             per_category[k].annotations[i].image_id]
         \o OldImageIds(per_category, k + 1)

\* a faulty merge: id_map is not applied to the annotations
MergeWithoutIdMap(per_category, category_names) ==
    LET merged == MergeLoop(per_category, category_names, 1, 1, 1,
                      [images |-> <<>>, annotations |-> <<>>,
                       categories |-> [i \in 1..Len(category_names) |->
                                         [id |-> i, name |-> Singular(category_names[i]),
                                          supercategory |-> "plant"]]])
        olds   == OldImageIds(per_category, 1)
    IN [merged EXCEPT !.annotations =
           [i \in 1..Len(@) |-> [@[i] EXCEPT !.image_id = olds[i]]]]

\* _merge_coco_splits(per_category, category_names)
MergeCocoSplits(per_category, category_names) ==
    MergeLoop(per_category, category_names, 1, 1, 1,
              [images |-> <<>>, annotations |-> <<>>,
               categories |-> [i \in 1..Len(category_names) |->
                                 [id |-> i, name |-> Singular(category_names[i]),
                                  supercategory |-> "plant"]]])

\* _build_coco_dict
BuildCocoDict(parts, description) ==
    [info |-> [year |-> 2025, version |-> "1.0.0", description |-> description, url |-> ""],
     images |-> parts.images, annotations |-> parts.annotations,
     categories |-> parts.categories, licenses |-> <<>>]

\* <category>_instances_<split>.json, combined_instances_<split>.json
OutPath(category, split) == <<category, "_instances_", split>>

Combined == <<"c", "o", "m", "b", "i", "n", "e", "d">>

\* the category and split the loops of convert() are at
ConvCategory == conv.categories[conv.ci]
ConvSplit    == conv.splits[conv.si]

\* main(argv): the parsed arguments enter convert(); out_dir is created
ConvertBegin(categories, splits, combined) ==
    /\ pc = "idle"
    /\ pc' = "convert"
    /\ conv' = [state |-> "category", categories |-> categories, splits |-> splits,
                combined |-> combined, si |-> 1, ci |-> 1,
                per_category_results |-> <<>>, out |-> EmptyDir, rc |-> -1]
    /\ UNCHANGED <<source, alldir, target, runs, fixer>>

\* one pass of the inner loop for a category whose root exists
ConvertCategory ==
    /\ pc = "convert" /\ conv.state = "category"
    /\ conv.si <= Len(conv.splits) /\ conv.ci <= Len(conv.categories)
    /\ ConvCategory \in DOMAIN target /\ target[ConvCategory].exists
    /\ LET parts == CollectAnnotationsForSplit(target[ConvCategory], ConvSplit, ConvCategory)
           coco  == BuildCocoDict(parts, <<"Plant Village Orange", ConvCategory, ConvSplit, "split">>)
       IN conv' = [conv EXCEPT
                      !.out = Put(@, OutPath(ConvCategory, ConvSplit), coco),
                      !.per_category_results = Append(@, parts),
                      !.ci = @ + 1]
    /\ UNCHANGED <<source, alldir, target, runs, pc, fixer>>

\* a faulty skip: a missing root ends the run with a failure
SkipCategoryAborts ==
    /\ pc = "convert" /\ conv.state = "category"
    /\ conv.si <= Len(conv.splits) /\ conv.ci <= Len(conv.categories)
    /\ ~(ConvCategory \in DOMAIN target /\ target[ConvCategory].exists)
    /\ conv' = [conv EXCEPT !.state = "done", !.rc = 1]
    /\ UNCHANGED <<source, alldir, target, runs, pc, fixer>>

\* one pass of the inner loop for a category whose root is missing: warn, continue
SkipCategory ==
    /\ pc = "convert" /\ conv.state = "category"
    /\ conv.si <= Len(conv.splits) /\ conv.ci <= Len(conv.categories)
    /\ ~(ConvCategory \in DOMAIN target /\ target[ConvCategory].exists)
    /\ conv' = [conv EXCEPT !.ci = @ + 1]
    /\ UNCHANGED <<source, alldir, target, runs, pc, fixer>>

\* the end of the inner loop: the combined export, then the next split
FinishSplit ==
    /\ pc = "convert" /\ conv.state = "category"
    /\ conv.si <= Len(conv.splits) /\ conv.ci > Len(conv.categories)
    /\ LET merged == MergeCocoSplits(conv.per_category_results, conv.categories)
           coco   == BuildCocoDict(merged, <<"Plant Village Orange combined", ConvSplit,
                                             "split", conv.categories>>)
       IN conv' = [conv EXCEPT
                      !.out = IF conv.combined /\ Len(conv.per_category_results) > 1
                              THEN Put(@, OutPath(Combined, ConvSplit), coco)
                              ELSE @,
                      !.per_category_results = <<>>,
                      !.si = @ + 1, !.ci = 1]
    /\ UNCHANGED <<source, alldir, target, runs, pc, fixer>>

\* convert() returns and main returns 0
ConvertReturn ==
    /\ pc = "convert" /\ conv.state = "category"
    /\ conv.si > Len(conv.splits)
    /\ conv' = [conv EXCEPT !.state = "done", !.rc = 0]
    /\ UNCHANGED <<source, alldir, target, runs, pc, fixer>>

-----------------------------------------------------------------------------
(* Reorganizer: the split files, labelmap.json, all.txt and main() *)

MarkCREC  == <<"C", "R", "E", "C", "_", "H", "L", "B">>
MarkUF    == <<"U", "F", ".", "C", "i", "t", "r", "u", "s", "_", "H", "L", "B">>
MarkImage == <<"i", "m", "a", "g", "e", " ", "(">>

\* 'CREC_HLB' in line or 'UF.Citrus_HLB' in line or 'image (' in line
IsOrangeLine(line) ==
    Contains(line, MarkCREC) \/ Contains(line, MarkUF) \/ Contains(line, MarkImage)

\* category_lines[category]: the stems of the lines grouped under the category
CategoryLines(lines, c) ==
    LET mine == SelectSeq(lines, LAMBDA l : IF c = Oranges THEN IsOrangeLine(l)
                                            ELSE ~IsOrangeLine(l))
    IN [i \in 1..Len(mine) |-> Stem(mine[i])]

\* reorganize_splits(all_dir, category_dirs): the tree it leaves for one category
ReorganizeSplitsTree(t, all_files, c) ==
    LET written == {sp \in SplitsPresent(all_files) :
                      CategoryLines(StrippedLines(all_files[SplitFile(sp)]), c) # <<>>}
    IN IF written = {} THEN t
       ELSE [t EXCEPT
               !.exists = TRUE,
               !.dirs = @ \cup {"sets"},
               !.sets = [f \in (DOMAIN @) \cup {SplitFile(sp) : sp \in written} |->
                           IF \E sp \in written : f = SplitFile(sp)
                           THEN CategoryLines(StrippedLines(all_files[f]), c)
                           ELSE @[f]]]

\* create_labelmap(category_dir, category_singular, category_plural)
CreateLabelmap(t, category_singular) ==
    [t EXCEPT !.labelmap =
        <<[object_id |-> 0, label_id |-> 0, keyboard_shortcut |-> "0",
           object_name |-> "background"],
          [object_id |-> 1, label_id |-> 1, keyboard_shortcut |-> "1",
           object_name |-> category_singular]>>]

\* the all.txt step of main(): the stems of sorted(glob("*.JPG") + glob("*.jpg"))
WriteAllTxt(t) ==
    IF t.exists /\ "images" \in t.dirs
    THEN LET files == Sorted(Glob(t.images, ExtJPG) \cup Glob(t.images, ExtJpg))
         IN [t EXCEPT !.dirs = @ \cup {"sets"},
                      !.sets = Put(@, SplitFile("all"),
                                   [i \in 1..Len(files) |-> Stem(files[i])])]
    ELSE t

LabelName(c) == IF c = Oranges THEN "orange" ELSE "background"

\* main(), for one category: the trees it can leave
MainResults(c) ==
    LET reorganized ==
            IF source[c].exists
            THEN {CreateLabelmap(t, LabelName(c)) :
                    t \in ReorganizeCategoryResults(source[c], target[c], ImageExt(c))}
            ELSE {target[c]}
    IN {WriteAllTxt(IF alldir.exists THEN ReorganizeSplitsTree(t, alldir.files, c) ELSE t) :
          t \in reorganized}

\* main() of reorganize_dataset.py
ReorganizerMain ==
    /\ pc = "idle"
    /\ pc' = "reorganized"
    /\ \E o \in MainResults(Oranges), b \in MainResults(Backgrounds) :
          target' = [c \in Categories |-> IF c = Oranges THEN o ELSE b]
    /\ runs' = [c \in Categories |-> IF source[c].exists THEN runs[c] + 1 ELSE runs[c]]
    /\ UNCHANGED <<source, alldir, fixer, conv>>

-----------------------------------------------------------------------------
(* Split Fixer: scripts/fix_splits.py *)

\* a Python dict is a sequence of <<key, value>> pairs in insertion order
DictHas(m, k) == \E i \in 1..Len(m) : m[i][1] = k

DictGet(m, k) == m[CHOOSE i \in 1..Len(m) : m[i][1] = k][2]

\* m[k] = v: a new key goes last, an old key keeps its place
DictSet(m, k, v) ==
    IF DictHas(m, k)
    THEN [i \in 1..Len(m) |-> IF m[i][1] = k THEN <<k, v>> ELSE m[i]]
    ELSE Append(m, <<k, v>>)

\* images[0] of a per-image JSON: '' stands for a missing key
ImgInfo(pvc, orig) == [pvc_filename |-> pvc, original_filename |-> orig]

\* img_info.get('pvc_filename', '') or img_info.get('original_filename', '')
OriginalName(data) ==
    IF ~data.wellformed \/ Len(data.images) = 0 THEN <<>>
    ELSE IF data.images[1].pvc_filename # <<>> THEN data.images[1].pvc_filename
    ELSE data.images[1].original_filename

\* the four keys one JSON file registers, without the lower-cased copies
RegisterNoLower(m, json_name, data) ==
    LET original == OriginalName(data)
        actual   == Stem(json_name)
    IN IF original = <<>> THEN m
       ELSE DictSet(DictSet(m, Stem(original), actual), original, actual)

\* the body of build_filename_mapping's loop for one JSON file
Register(m, json_name, data) ==
    LET original == OriginalName(data)
        actual   == Stem(json_name)
    IN IF original = <<>> THEN m
       ELSE DictSet(DictSet(DictSet(DictSet(m,
                Stem(original), actual),
                original, actual),
                Lower(Stem(original)), actual),
                Lower(original), actual)

RECURSIVE BuildLoop(_, _, _)
BuildLoop(json_dir, order, m) ==
    IF order = <<>> THEN m
    ELSE BuildLoop(json_dir, Tail(order), Register(m, Head(order), json_dir[Head(order)]))

\* build_filename_mapping(json_dir), one mapping per listing order of glob("*.json")
FilenameMappings(json_dir) ==
    {BuildLoop(json_dir, order, <<>>) : order \in Perms(Glob(json_dir, DotJson))}

\* the keys tried in priority order: line, line_stem, line_lower, line_stem_lower
DirectKeys(line) == <<line, Stem(line), Lower(line), Lower(Stem(line))>>

\* Path(orig).stem if '.' in orig else orig
ScanStem(orig) == IF HasDot(orig) THEN Stem(orig) ELSE orig

NotFound == [found |-> FALSE, actual |-> <<>>]

Found(actual) == [found |-> TRUE, actual |-> actual]

\* the resolution of one line of a split file: the direct lookups, then the scan
Resolve(mapping, line) ==
    LET keys == DirectKeys(line)
        hits == {i \in 1..4 : DictHas(mapping, keys[i])}
        scan == {i \in 1..Len(mapping) :
                    \/ ScanStem(mapping[i][1]) = Stem(line)
                    \/ ScanStem(mapping[i][1]) = Lower(Stem(line))}
    IN IF hits # {}
       THEN Found(DictGet(mapping, keys[CHOOSE i \in hits : \A j \in hits : i <= j]))
       ELSE IF scan # {}
       THEN Found(mapping[CHOOSE i \in scan : \A j \in scan : i <= j][2])
       ELSE NotFound

\* mapped_lines and unmapped of one split file
MappedLines(mapping, lines) ==
    LET hit == SelectSeq(lines, LAMBDA l : Resolve(mapping, l).found)
    IN [i \in 1..Len(hit) |-> Resolve(mapping, hit[i]).actual]

Unmapped(mapping, lines) == SelectSeq(lines, LAMBDA l : ~Resolve(mapping, l).found)

\* a faulty write: mapped_lines as collected, neither deduplicated nor sorted
FixSplitsUnsorted(t, all_files, mapping) ==
    IF SplitsPresent(all_files) = {} THEN t
    ELSE [t EXCEPT
            !.dirs = @ \cup {"sets"},
            !.sets = [f \in (DOMAIN @) \cup {SplitFile(sp) : sp \in SplitsPresent(all_files)} |->
                        IF \E sp \in SplitsPresent(all_files) : f = SplitFile(sp)
                        THEN MappedLines(mapping, StrippedLines(all_files[f]))
                        ELSE @[f]]]

\* fix_splits(category_dir, all_dir) with the mapping it built: the category
\* tree it leaves
FixSplitsTree(t, all_files, mapping) ==
    IF SplitsPresent(all_files) = {} THEN t
    ELSE [t EXCEPT
            !.dirs = @ \cup {"sets"},
            !.sets = [f \in (DOMAIN @) \cup {SplitFile(sp) : sp \in SplitsPresent(all_files)} |->
                        IF \E sp \in SplitsPresent(all_files) : f = SplitFile(sp)
                        THEN Sorted(Elems(MappedLines(mapping, StrippedLines(all_files[f]))))
                        ELSE @[f]]]

\* the unmapped lines of each split file
FixSplitsUnmapped(all_files, mapping) ==
    [f \in {SplitFile(sp) : sp \in SplitsPresent(all_files)} |->
        Unmapped(mapping, StrippedLines(all_files[f]))]

\* main() of fix_splits.py: oranges is fixed when oranges/ and all/ exist;
\* backgrounds is only looked at
FixerMain ==
    /\ pc \in {"idle", "reorganized"}
    /\ pc' = "fixed"
    /\ IF target[Oranges].exists /\ alldir.exists
       THEN \E mapping \in FilenameMappings(target[Oranges].json) :
               /\ target' = [target EXCEPT
                                ![Oranges] = FixSplitsTree(@, alldir.files, mapping)]
               /\ fixer' = [mapping |-> mapping,
                            unmapped |-> FixSplitsUnmapped(alldir.files, mapping)]
       ELSE UNCHANGED <<target, fixer>>
    /\ UNCHANGED <<source, alldir, runs, conv>>

-----------------------------------------------------------------------------
(* Inputs of the Reorganizer runs *)

xJPG == <<"x", ".", "J", "P", "G">>
xjpg == <<"x", ".", "j", "p", "g">>
yjpg == <<"y", ".", "j", "p", "g">>
zjpg == <<"z", ".", "j", "p", "g">>
xjson == <<"x", ".", "j", "s", "o", "n">>
yjpgjson == <<"y", ".", "j", "p", "g", ".", "j", "s", "o", "n">>

SourceImages == {xJPG, xjpg, yjpg, zjpg}
SourceJsons  == {xjson, yjpgjson}

\* what a source JSON file can hold: not well-formed, or a list of annotations
JsonContents(anns) ==
    {MalformedJson} \cup {JsonFile(TRUE, a, <<>>) : a \in SeqsUpTo(anns, MaxBoxes)}

\* the source directories: any subset of the images, each JSON absent or present
SourceDirsOf(images, jsons, anns) ==
    {[n \in imgs \cup js |-> IF n \in imgs THEN ImageFile(n) ELSE jc[n]] :
        imgs \in SUBSET images,
        js \in SUBSET jsons,
        jc \in [jsons -> JsonContents(anns)]}

SourceDirs == SourceDirsOf(SourceImages, SourceJsons, {Ann1, BrokenAnn})

ConvIdle == [state |-> "idle"]

FixerIdle == [mapping |-> <<>>, unmapped |-> <<>>]

NoAll == [exists |-> FALSE, files |-> EmptyDir]

InitReorg ==
    /\ \E c \in Categories, d \in SourceDirs, aug \in BOOLEAN :
          source = [k \in Categories |->
                      IF k = c
                      THEN [exists |-> TRUE,
                            without_aug |-> IF aug THEN Dir(d) ELSE NoDir]
                      ELSE [exists |-> FALSE, without_aug |-> NoDir]]
    /\ alldir = NoAll
    /\ target = [k \in Categories |-> NoTree]
    /\ runs = [k \in Categories |-> 0]
    /\ pc = "idle"
    /\ fixer = FixerIdle
    /\ conv = ConvIdle

NextReorg == \E c \in Categories : ReorganizeCategory(c)

\* reorganize_category run up to MaxRuns times on an unchanged source
SpecReorg == InitReorg /\ [][NextReorg]_vars

-----------------------------------------------------------------------------
(* Reorganizer, then Converter, on one source directory *)

InitRound ==
    /\ \E c \in Categories, d \in SourceDirsOf({xJPG, yjpg}, {xjson}, {Ann1, Ann2, BrokenAnn}) :
          source = [k \in Categories |->
                      IF k = c
                      THEN [exists |-> TRUE, without_aug |-> Dir(d)]
                      ELSE [exists |-> FALSE, without_aug |-> NoDir]]
    /\ alldir = NoAll
    /\ target = [k \in Categories |-> NoTree]
    /\ runs = [k \in Categories |-> 0]
    /\ pc = "idle"
    /\ fixer = FixerIdle
    /\ conv = ConvIdle

NextRound ==
    \/ \E c \in Categories : ReorganizeCategory(c)
    \/ \E combined \in BOOLEAN : ConvertBegin(<<Oranges, Backgrounds>>, <<"train">>, combined)
    \/ ConvertCategory
    \/ SkipCategory
    \/ FinishSplit
    \/ ConvertReturn

SpecRound == InitRound /\ [][NextRound]_vars

-----------------------------------------------------------------------------
(* Claims about the Reorganizer *)

\* the source directory process_directory has run over, for a category
RanOver(c) == source[c].exists /\ source[c].without_aug.exists /\ runs[c] >= 1

Src(c) == source[c].without_aug.files

HasJson(c, img) == JsonFor(Src(c), img) \in DOMAIN Src(c)

JsonOf(c, img) == Src(c)[JsonFor(Src(c), img)]

\* C1: after process_directory has run over a source directory, every image
\* file it found has a copy in images/ and a file csv/<stem>.csv, whatever the
\* state of its JSON; with the JSON absent or malformed the CSV is header-only.
C1_EveryImageHasCsv ==
    \A c \in Categories :
        RanOver(c) =>
            \A img \in FoundImages(Src(c), ImageExt(c)) :
                /\ img \in DOMAIN target[c].images
                /\ target[c].images[img] = Src(c)[img]
                /\ (Stem(img) \o DotCsv) \in DOMAIN target[c].csv
                /\ (~HasJson(c, img) \/ ~JsonOf(c, img).wellformed)
                      => target[c].csv[Stem(img) \o DotCsv] = <<CsvHeader>>

\* C10: once reorganize_category has run on a source, running it again leaves
\* images/, json/ and csv/ of the target with the same files and contents.
C10_SecondRunChangesNothing ==
    [][\A c \in Categories :
          runs[c] >= 1 =>
              /\ target'[c].images = target[c].images
              /\ target'[c].json = target[c].json
              /\ target'[c].csv = target[c].csv]_vars

\* a second run over a source that mixes a malformed JSON, a well-formed JSON
\* with boxes and an image without JSON
C10_Witness ==
    \E c \in Categories :
        /\ runs[c] = 2 /\ RanOver(c)
        /\ \E i1, i2 \in DOMAIN target[c].images :
              /\ HasJson(c, i1) /\ ~JsonOf(c, i1).wellformed
              /\ HasJson(c, i2) /\ JsonOf(c, i2).wellformed
              /\ Len(target[c].csv[Stem(i2) \o DotCsv]) > 1
        /\ \E i3 \in DOMAIN target[c].images : ~HasJson(c, i3)

-----------------------------------------------------------------------------
(* Claims about the round trip Reorganizer -> Converter *)

ConvertDone == pc = "convert" /\ conv.state = "done"

\* a source image whose JSON is well-formed and lists only boxes with a bbox
HasNumericBoxes(c, img) ==
    /\ HasJson(c, img)
    /\ JsonOf(c, img).wellformed
    /\ \A i \in 1..Len(JsonOf(c, img).annotations) : JsonOf(c, img).annotations[i].has_bbox

\* the annotations an export lists for an image file, in the export's order
AnnsOfImage(export, file_name) ==
    LET ids == {export.images[i].id : i \in {k \in 1..Len(export.images) :
                                               export.images[k].file_name = file_name}}
    IN SelectSeq(export.annotations, LAMBDA a : a.image_id \in ids)

BoxEq(got, want) == \A k \in 1..4 : NumEq(got[k], want[k])

\* C8: an image whose source JSON lists N boxes gets a CSV of exactly N data
\* rows (row i: item = i from zero, label = 1 iff category_id is non-zero), and
\* the converted export lists exactly N annotations for that image, in the same
\* order, bbox equal to the source bbox and area = width * height.
C8_RoundTrip ==
    \A c \in Categories :
        (RanOver(c) /\ ConvertDone) =>
            \A img \in FoundImages(Src(c), ImageExt(c)) :
                HasNumericBoxes(c, img) =>
                    LET anns == JsonOf(c, img).annotations
                        csv  == target[c].csv[Stem(img) \o DotCsv]
                        got  == AnnsOfImage(conv.out[OutPath(c, "train")], <<c, "images", img>>)
                    IN /\ Len(csv) = Len(anns) + 1
                       /\ \A i \in 1..Len(anns) :
                             /\ Split(csv[i + 1], ",")[1] = NatToStr(i - 1)
                             /\ Split(csv[i + 1], ",")[6] =
                                   (IF anns[i].category_id # 0 THEN <<"1">> ELSE <<"0">>)
                       /\ Len(got) = Len(anns)
                       /\ \A i \in 1..Len(anns) :
                             /\ BoxEq(got[i].bbox, anns[i].bbox)
                             /\ got[i].area = anns[i].bbox[3].tenths * anns[i].bbox[4].tenths

\* a converted export holding the two boxes of a reorganized image
C8_Witness ==
    \E c \in Categories :
        /\ RanOver(c) /\ ConvertDone
        /\ \E img \in FoundImages(Src(c), ImageExt(c)) :
              /\ HasNumericBoxes(c, img)
              /\ Len(JsonOf(c, img).annotations) = 2
              /\ JsonOf(c, img).annotations[1] # JsonOf(c, img).annotations[2]
              /\ Len(AnnsOfImage(conv.out[OutPath(c, "train")], <<c, "images", img>>)) = 2

-----------------------------------------------------------------------------
(* Inputs of the Split Fixer runs *)

img001 == <<"i", "m", "g", "_", "0", "0", "1">>
img002 == <<"i", "m", "g", "_", "0", "0", "2">>
img001json == <<"i", "m", "g", "_", "0", "0", "1", ".", "j", "s", "o", "n">>
img002json == <<"i", "m", "g", "_", "0", "0", "2", ".", "j", "s", "o", "n">>
imgApng == <<"i", "m", "g", "A", ".", "p", "n", "g">>
imgB == <<"i", "m", "g", "B">>
imgajpg == <<"i", "m", "g", "a", ".", "j", "p", "g">>
UFa1JPG == <<"U", "F", ".", "a", "1", ".", "J", "P", "G">>
imgapng == <<"i", "m", "g", "a", ".", "p", "n", "g">>
IMGB == <<"I", "M", "G", "B">>
UFa2 == <<"U", "F", ".", "a", "2">>
zzz == <<"z", "z", "z">>
Blank == <<" ">>
old == <<"o", "l", "d">>

\* longest split file under all/
MaxLines == 2

\* the original file names the JSON files of json/ embed
Originals == {imgApng, imgB, imgajpg, UFa1JPG}

\* the lines of the split files under all/
SplitLines == {imgapng, IMGB, UFa2, zzz, Blank}

\* what a JSON file of json/ can hold
FixerJsonContents ==
    {MalformedJson, JsonFile(TRUE, <<>>, <<>>)}
      \cup {JsonFile(TRUE, <<>>, <<ImgInfo(o, <<>>)>>) : o \in Originals}
      \cup {JsonFile(TRUE, <<>>, <<ImgInfo(<<>>, imgB)>>)}

FixerJsonDirs ==
    {[n \in js |-> jc[n]] : js \in SUBSET {img001json, img002json},
                            jc \in [{img001json, img002json} -> FixerJsonContents]}

\* all/: train.txt with up to MaxLines lines, val.txt absent, empty or with one line
FixerAllDirs ==
    {[f \in {SplitFile("train")} |-> tr] : tr \in SeqsUpTo(SplitLines, MaxLines)}
      \cup {[f \in {SplitFile("train"), SplitFile("val")} |->
                IF f = SplitFile("train") THEN tr ELSE va] :
              tr \in SeqsUpTo(SplitLines, MaxLines), va \in {<<>>, <<IMGB>>}}

\* sets/ before the fixer runs: empty, or holding an earlier train.txt
FixerSetsDirs == {EmptyDir, [f \in {SplitFile("train")} |-> <<old>>]}

InitFix ==
    /\ source = [k \in Categories |-> [exists |-> FALSE, without_aug |-> NoDir]]
    /\ \E a \in {NoAll} \cup {[exists |-> TRUE, files |-> f] : f \in FixerAllDirs} :
          alldir = a
    /\ \E o \in {NoTree} \cup
                {[NoTree EXCEPT !.exists = TRUE, !.json = j, !.sets = st,
                                !.dirs = {"images", "json", "csv", "sets"}] :
                    j \in FixerJsonDirs, st \in FixerSetsDirs} :
          target = [k \in Categories |-> IF k = Oranges THEN o ELSE NoTree]
    /\ runs = [k \in Categories |-> 0]
    /\ pc = "idle"
    /\ fixer = FixerIdle
    /\ conv = ConvIdle

NextFix == FixerMain

\* one run of the Split Fixer
SpecFix == InitFix /\ [][NextFix]_vars

-----------------------------------------------------------------------------
(* Claims about the Split Fixer *)

\* fix_splits has run on oranges
Fixed == pc = "fixed" /\ target[Oranges].exists /\ alldir.exists

\* the stripped, non-blank lines of a split file under all/
InputLines(f) == StrippedLines(alldir.files[f])

\* the original file name embedded in the JSON file of a canonical stem
OriginalOf(stem) ==
    IF (stem \o DotJson) \in DOMAIN target[Oranges].json
    THEN OriginalName(target[Oranges].json[stem \o DotJson])
    ELSE <<>>

\* equal up to letter case and the presence of a file extension
SameName(line, original) ==
    /\ original # <<>>
    /\ {Lower(line), Lower(Stem(line))} \cap {Lower(original), Lower(Stem(original))} # {}

\* C4: a line contributes a canonical stem to sets/<split>.txt only if that
\* stem's JSON embeds an original file name equal to the line up to case and
\* extension; a line with no such JSON is unresolved and contributes nothing.
C4_OnlyMatchingLinesContribute ==
    Fixed =>
        \A f \in DOMAIN alldir.files :
            /\ \A stem \in Elems(target[Oranges].sets[f]) :
                  \E line \in Elems(InputLines(f)) : SameName(line, OriginalOf(stem))
            /\ \A line \in Elems(InputLines(f)) :
                  (\A j \in DOMAIN target[Oranges].json : ~SameName(line, OriginalOf(Stem(j))))
                      => line \in Elems(fixer.unmapped[f])

\* lower-cased and stripped of its extension
Norm(name) == Lower(Stem(name))

MappingKeys == {fixer.mapping[i][1] : i \in 1..Len(fixer.mapping)}

\* the key is one the resolution of the line looks at: a direct key of the
\* line, or a key whose scan stem is the line's stem
Competes(line, key) ==
    \/ key \in Elems(DirectKeys(line))
    \/ ScanStem(key) \in {Stem(line), Lower(Stem(line))}

\* C5 as claimed: a line that equals a mapping key after lower-casing and
\* stripping the extension of both resolves to that key's canonical stem.
C5_ResolvesToThatKey ==
    Fixed =>
        \A f \in DOMAIN alldir.files :
            \A line \in Elems(InputLines(f)) :
                \A key \in MappingKeys :
                    Norm(key) = Norm(line) =>
                        /\ Resolve(fixer.mapping, line) = Found(DictGet(fixer.mapping, key))
                        /\ DictGet(fixer.mapping, key) \in Elems(target[Oranges].sets[f])

\* the example: originals imgA.png -> img_001 and imgB -> img_002, lines imga.png, IMGB
C5_ExampleInput ==
    /\ Fixed
    /\ DOMAIN target[Oranges].json = {img001json, img002json}
    /\ OriginalOf(img001) = imgApng
    /\ OriginalOf(img002) = imgB
    /\ alldir.files[SplitFile("train")] = <<imgapng, IMGB>>

\* C5 (amended): with the mapping build_filename_mapping builds, a line that
\* equals a mapping key after lower-casing and stripping the extension of both
\* is always resolved, never reported unmapped; it resolves to that key's
\* canonical stem unless a key of another canonical stem is looked at for the
\* line as well; the example's lines yield img_001, img_002.
C5_ResolvesUnlessAmbiguous ==
    Fixed =>
        /\ \A f \in DOMAIN alldir.files :
              \A line \in Elems(InputLines(f)) :
                  \A key \in MappingKeys :
                      Norm(key) = Norm(line) =>
                          /\ Resolve(fixer.mapping, line).found
                          /\ line \notin Elems(fixer.unmapped[f])
                          /\ Resolve(fixer.mapping, line).actual \in Elems(target[Oranges].sets[f])
                          /\ (\A other \in MappingKeys :
                                 Competes(line, other)
                                    => DictGet(fixer.mapping, other) = DictGet(fixer.mapping, key))
                                => /\ Resolve(fixer.mapping, line).actual = DictGet(fixer.mapping, key)
                                   /\ DictGet(fixer.mapping, key) \in Elems(target[Oranges].sets[f])
        /\ C5_ExampleInput => target[Oranges].sets[SplitFile("train")] = <<img001, img002>>

\* the example has run
C5_Witness ==
    /\ C5_ExampleInput
    /\ target[Oranges].sets[SplitFile("train")] = <<img001, img002>>

-----------------------------------------------------------------------------
(* The pipeline: Reorganizer main(), then Split Fixer main() *)

image1JPG == <<"i", "m", "a", "g", "e", " ", "(", "1", ")", ".", "J", "P", "G">>
image1json == <<"i", "m", "a", "g", "e", " ", "(", "1", ")", ".", "j", "s", "o", "n">>
bg1jpg == <<"b", "g", "1", ".", "j", "p", "g">>
bg2jpg == <<"b", "g", "2", ".", "j", "p", "g">>
CREC1JPG == <<"C", "R", "E", "C", "_", "H", "L", "B", " ", "1", ".", "J", "P", "G">>
CREC2JPG == <<"C", "R", "E", "C", "_", "H", "L", "B", " ", "2", ".", "J", "P", "G">>

\* the raw orange source: image (1).JPG or nothing, its JSON absent, malformed
\* or embedding the original name CREC_HLB 1.JPG
PipeOrangeSources ==
    {[n \in imgs \cup js |-> IF n \in imgs THEN ImageFile(n) ELSE jc] :
        imgs \in SUBSET {image1JPG}, js \in SUBSET {image1json},
        jc \in {MalformedJson, JsonFile(TRUE, <<Ann1>>, <<ImgInfo(CREC1JPG, <<>>)>>)}}

PipeBackgroundSources == {[n \in imgs |-> ImageFile(n)] : imgs \in SUBSET {bg1jpg}}

PipeSplitLines == {CREC1JPG, CREC2JPG, bg1jpg, bg2jpg}

InitPipe ==
    /\ \E o \in PipeOrangeSources, b \in PipeBackgroundSources, oe, be \in BOOLEAN :
          source = [c \in Categories |->
                      IF c = Oranges
                      THEN (IF oe THEN [exists |-> TRUE, without_aug |-> Dir(o)]
                            ELSE [exists |-> FALSE, without_aug |-> NoDir])
                      ELSE (IF be THEN [exists |-> TRUE, without_aug |-> Dir(b)]
                            ELSE [exists |-> FALSE, without_aug |-> NoDir])]
    /\ \E a \in {NoAll} \cup
                {[exists |-> TRUE, files |-> [f \in {SplitFile("train")} |-> tr]] :
                    tr \in SeqsUpTo(PipeSplitLines, MaxLines)} :
          alldir = a
    /\ target = [c \in Categories |-> NoTree]
    /\ runs = [c \in Categories |-> 0]
    /\ pc = "idle"
    /\ fixer = FixerIdle
    /\ conv = ConvIdle

NextPipe ==
    \/ ReorganizerMain
    \/ (pc = "reorganized" /\ FixerMain)

SpecPipe == InitPipe /\ [][NextPipe]_vars

\* the entry of a split file under all/ has an image in some category: by its
\* own stem, or by the original name the image's JSON embeds
HasImage(line) ==
    \E c \in Categories :
        \E n \in DOMAIN target[c].images :
            \/ Stem(n) = Stem(line)
            \/ /\ (Stem(n) \o DotJson) \in DOMAIN target[c].json
               /\ SameName(line, OriginalName(target[c].json[Stem(n) \o DotJson]))

\* C6: after the Reorganizer and then the Split Fixer have run, every stem of
\* sets/train.txt, val.txt, test.txt of every category names an image file of
\* that category's images/; an entry of all/<split>.txt without image is
\* reported unmapped and is in no split list.
C6_SplitStemsHaveImages ==
    pc = "fixed" =>
        /\ \A c \in Categories :
              \A i \in 1..Len(SplitNames) :
                  SplitFile(SplitNames[i]) \in DOMAIN target[c].sets =>
                      \A stem \in Elems(target[c].sets[SplitFile(SplitNames[i])]) :
                          \E n \in DOMAIN target[c].images : Stem(n) = stem
        /\ alldir.exists =>
              \A f \in DOMAIN alldir.files :
                  \A line \in Elems(InputLines(f)) :
                      ~HasImage(line) =>
                          /\ f \in DOMAIN fixer.unmapped
                          /\ line \in Elems(fixer.unmapped[f])

-----------------------------------------------------------------------------
(* Inputs of the Converter runs *)

Lemons == <<"l", "e", "m", "o", "n", "s">>
ajpg == <<"a", ".", "j", "p", "g">>
BJPG == <<"B", ".", "J", "P", "G">>
aJPG == <<"a", ".", "J", "P", "G">>
StemA == <<"a">>
StemB == <<"B">>
StemC == <<"c">>
acsv == <<"a", ".", "c", "s", "v">>
Bcsv == <<"B", ".", "c", "s", "v">>

\* the categories the converter is asked for
ConvCats == {Oranges, Backgrounds, Lemons}

\* the CSV file json_to_csv derives from a list of annotations
CsvOf(anns) == JsonToCsv(JsonFile(TRUE, anns, <<>>))

\* csv/ of a category: per stem no file, or the CSV of up to MaxBoxes boxes
ConvCsvDirs ==
    {[n \in ns |-> CsvOf(rows[n])] :
        ns \in SUBSET {acsv, Bcsv},
        rows \in [{acsv, Bcsv} -> SeqsUpTo({Ann1}, MaxBoxes)]}

\* sets/train.txt of a category: missing, empty, blank, or a list of stems
ConvTrainLists ==
    {<<>>, <<Blank>>, <<StemA>>, <<StemB, StemA>>, <<StemC>>, <<StemA, Blank, StemC>>,
     <<StemA, StemA>>}

\* a category tree with every choice of images, CSV files and train.txt
RichTrees ==
    {[NoTree EXCEPT !.exists = TRUE, !.dirs = {"images", "csv", "sets"},
                    !.images = [n \in imgs |-> ImageFile(n)],
                    !.csv = cs, !.sets = st] :
        imgs \in SUBSET {ajpg, BJPG, aJPG},
        cs \in ConvCsvDirs,
        st \in {EmptyDir} \cup {[f \in {SplitFile("train")} |-> l] : l \in ConvTrainLists}}

TreeWith(images, csv, sets) ==
    [NoTree EXCEPT !.exists = TRUE, !.dirs = {"images", "csv", "sets"},
                   !.images = images, !.csv = csv, !.sets = sets]

\* four category trees for the runs over several categories
SmallTrees ==
    {TreeWith(EmptyDir, EmptyDir, EmptyDir),
     TreeWith([n \in {ajpg} |-> ImageFile(n)],
              [n \in {acsv} |-> CsvOf(<<Ann1>>)], EmptyDir),
     TreeWith([n \in {ajpg, BJPG} |-> ImageFile(n)],
              [n \in {acsv, Bcsv} |-> IF n = acsv THEN CsvOf(<<Ann2>>) ELSE CsvOf(<<Ann1, Ann2>>)],
              [f \in {SplitFile("val")} |-> <<StemC>>]),
     TreeWith([n \in {ajpg, BJPG} |-> ImageFile(n)],
              [n \in {acsv} |-> CsvOf(<<Ann1, Ann1>>)],
              [f \in {SplitFile("train")} |-> <<StemB>>])}

RECURSIVE DistinctSeqs(_)
\* the category lists of the command line: each name at most once
DistinctSeqs(S) ==
    {<<>>} \cup UNION {{<<x>> \o r : r \in DistinctSeqs(S \ {x})} : x \in S}

\* one category with any tree, one split
InitCollect ==
    /\ \E t \in RichTrees :
          target = [c \in ConvCats |-> IF c = Oranges THEN t ELSE NoTree]
    /\ conv = [ConvIdle EXCEPT !.state = "single"]

\* up to three categories, each missing or with one of the small trees
InitMerge ==
    /\ target \in [ConvCats -> {NoTree} \cup SmallTrees]
    /\ conv = [ConvIdle EXCEPT !.state = "several"]

InitConv ==
    /\ source = [k \in Categories |-> [exists |-> FALSE, without_aug |-> NoDir]]
    /\ alldir = NoAll
    /\ runs = [k \in Categories |-> 0]
    /\ pc = "idle"
    /\ fixer = FixerIdle
    /\ (InitCollect \/ InitMerge)

NextConv ==
    \/ \E combined \in BOOLEAN :
          \/ /\ conv.state = "single"
             /\ ConvertBegin(<<Oranges, Backgrounds>>, <<"train">>, combined)
          \/ /\ conv.state = "several"
             /\ \E cats \in DistinctSeqs(ConvCats) \ {<<>>} :
                   ConvertBegin(cats, <<"train", "val">>, combined)
    \/ ConvertCategory
    \/ SkipCategory
    \/ FinishSplit
    \/ ConvertReturn

\* one run of the converter
SpecConv == InitConv /\ [][NextConv]_vars

-----------------------------------------------------------------------------
(* Claims about the Converter *)

ImageExts == {ExtJpg, ExtJPG, ExtPng}

\* the stems of the images an export lists (file_name is <category>/images/<name>)
ExportedStems(export) == {Stem(export.images[i].file_name[3]) : i \in 1..Len(export.images)}

\* the non-blank lines of sets/<split>.txt, none when the file is missing
ListedStems(t, split) ==
    IF SplitFile(split) \in DOMAIN t.sets
    THEN {Strip(l) : l \in Elems(t.sets[SplitFile(split)])} \ {<<>>}
    ELSE {}

\* C7: the stems of a (category, split) pair come from sets/<split>.txt; every
\* image under images/ is used exactly when that file is missing or has no
\* non-blank line; a non-empty split file is never widened to all images.
C7_FallbackOnlyWithoutList ==
    pc = "convert" =>
        \A c \in ConvCats :
            \A i \in 1..Len(conv.splits) :
                OutPath(c, conv.splits[i]) \in DOMAIN conv.out =>
                    LET t        == target[c]
                        exported == ExportedStems(conv.out[OutPath(c, conv.splits[i])])
                        listed   == ListedStems(t, conv.splits[i])
                        all      == {Stem(n) : n \in {m \in DOMAIN t.images :
                                                        \E e \in ImageExts : EndsWith(m, e)}}
                    IN IF listed = {}
                       THEN exported = all
                       ELSE exported = {st \in listed :
                                          \E e \in ImageExts : (st \o e) \in DOMAIN t.images}

\* an export with no image, from a split file that lists only a stem without
\* image file, in a category that has images
C7_Witness ==
    /\ pc = "convert"
    /\ \E c \in ConvCats :
          \E i \in 1..Len(conv.splits) :
              /\ OutPath(c, conv.splits[i]) \in DOMAIN conv.out
              /\ ListedStems(target[c], conv.splits[i]) = {StemC}
              /\ DOMAIN target[c].images # {}
              /\ conv.out[OutPath(c, conv.splits[i])].images = <<>>

\* the positions, in the input category list, of the categories that were
\* processed for a split, in input order
Processed(split) ==
    SelectSeq([i \in 1..Len(conv.categories) |-> i],
              LAMBDA i : OutPath(conv.categories[i], split) \in DOMAIN conv.out)

RECURSIVE Origins(_, _)
\* for every annotation of the per-category exports of a split, in input
\* category order and then per-category order: the position of its category in
\* the input list, the file name of the image it points to, and its bbox
Origins(split, positions) ==
    IF positions = <<>> THEN <<>>
    ELSE LET export == conv.out[OutPath(conv.categories[Head(positions)], split)]
             image_of(ann) ==
                 export.images[CHOOSE k \in 1..Len(export.images) :
                                  export.images[k].id = ann.image_id].file_name
         IN [k \in 1..Len(export.annotations) |->
                [position |-> Head(positions),
                 file_name |-> image_of(export.annotations[k]),
                 bbox |-> export.annotations[k].bbox]]
            \o Origins(split, Tail(positions))

RECURSIVE ImageNames(_, _)
\* the file names of the images of the per-category exports, in the same order
ImageNames(split, positions) ==
    IF positions = <<>> THEN <<>>
    ELSE LET export == conv.out[OutPath(conv.categories[Head(positions)], split)]
         IN [k \in 1..Len(export.images) |-> export.images[k].file_name]
            \o ImageNames(split, Tail(positions))

HasCombined(split) == pc = "convert" /\ OutPath(Combined, split) \in DOMAIN conv.out

CombinedOf(split) == conv.out[OutPath(Combined, split)]

\* C2: in a combined export every annotation's category_id is the 1-based
\* position, in the input category list, of the category whose per-category
\* export the annotation came from, whichever categories were skipped.
C2_CategoryIdIsInputPosition ==
    \A i \in 1..(IF pc = "convert" THEN Len(conv.splits) ELSE 0) :
        HasCombined(conv.splits[i]) =>
            LET origins == Origins(conv.splits[i], Processed(conv.splits[i]))
                merged  == CombinedOf(conv.splits[i]).annotations
            IN /\ Len(merged) = Len(origins)
               /\ \A k \in 1..Len(merged) : merged[k].category_id = origins[k].position

\* C3: the combined export's image ids are exactly 1..(n1+...+nk) and its
\* annotation ids exactly 1..(number of annotations), each once; a merged
\* annotation points to the image its per-category annotation pointed to and
\* to an entry of the combined categories; annotations follow input category
\* order, then per-category order.
C3_MergedIdsAreDense ==
    \A i \in 1..(IF pc = "convert" THEN Len(conv.splits) ELSE 0) :
        HasCombined(conv.splits[i]) =>
            LET split   == conv.splits[i]
                origins == Origins(split, Processed(split))
                names   == ImageNames(split, Processed(split))
                merged  == CombinedOf(split)
                image_with(id) ==
                    {k \in 1..Len(merged.images) : merged.images[k].id = id}
            IN /\ Len(merged.images) = Len(names)
               /\ \A k \in 1..Len(names) :
                     /\ merged.images[k].id = k
                     /\ merged.images[k].file_name = names[k]
               /\ Len(merged.annotations) = Len(origins)
               /\ \A k \in 1..Len(origins) :
                     /\ merged.annotations[k].id = k
                     /\ merged.annotations[k].bbox = origins[k].bbox
                     /\ \E m \in image_with(merged.annotations[k].image_id) :
                           merged.images[m].file_name = origins[k].file_name
                     /\ \E m \in 1..Len(merged.categories) :
                           merged.categories[m].id = merged.annotations[k].category_id

\* a combined export of three categories with images and annotations in two
\* of them
C3_Witness ==
    \E i \in 1..(IF pc = "convert" THEN Len(conv.splits) ELSE 0) :
        /\ HasCombined(conv.splits[i])
        /\ Len(conv.categories) = 3
        /\ Len(CombinedOf(conv.splits[i]).images) >= 3
        /\ Len(CombinedOf(conv.splits[i]).annotations) >= 3
        /\ \E k \in 1..Len(CombinedOf(conv.splits[i]).annotations) :
              CombinedOf(conv.splits[i]).annotations[k].image_id > 2

\* C9: a category whose root is missing gets no export for that split, every
\* other requested category gets one for every split, and main returns 0.
C9_MissingRootIsSkipped ==
    ConvertDone =>
        /\ conv.rc = 0
        /\ \A i \in 1..Len(conv.splits) :
              \A k \in 1..Len(conv.categories) :
                  target[conv.categories[k]].exists
                      <=> OutPath(conv.categories[k], conv.splits[i]) \in DOMAIN conv.out

\* a finished run that skipped the first category and wrote the second for
\* both splits
C9_Witness ==
    /\ ConvertDone
    /\ Len(conv.categories) >= 2 /\ Len(conv.splits) = 2
    /\ ~target[conv.categories[1]].exists
    /\ target[conv.categories[2]].exists
    /\ OutPath(conv.categories[2], conv.splits[2]) \in DOMAIN conv.out
    /\ conv.rc = 0

-----------------------------------------------------------------------------
(* Claims about one single-category export *)

\* the stems the converter resolves for a category tree and a split
ResolvedStems(t, split) ==
    IF ListedStems(t, split) # {} THEN ListedStems(t, split)
    ELSE {Stem(n) : n \in {m \in DOMAIN t.images : \E e \in ImageExts : EndsWith(m, e)}}

\* the image file of a stem: .jpg, else .JPG, else .png
PreferredImage(t, st) ==
    IF (st \o ExtJpg) \in DOMAIN t.images THEN st \o ExtJpg
    ELSE IF (st \o ExtJPG) \in DOMAIN t.images THEN st \o ExtJPG
    ELSE st \o ExtPng

\* the number of data rows of csv/<stem>.csv, 0 when the file is missing
DataRows(t, st) ==
    IF (st \o DotCsv) \in DOMAIN t.csv THEN Len(t.csv[st \o DotCsv]) - 1 ELSE 0

\* C11 for one export of a category tree
DenseExport(t, c, split, export) ==
    LET with_image == {st \in ResolvedStems(t, split) :
                          \E e \in ImageExts : (st \o e) \in DOMAIN t.images}
        images     == export.images
        anns       == export.annotations
        stem_of(k) == Stem(images[k].file_name[3])
        anns_of(k) == {j \in 1..Len(anns) : anns[j].image_id = images[k].id}
    IN /\ Len(images) = Cardinality(with_image)
       /\ {stem_of(k) : k \in 1..Len(images)} = with_image
       /\ \A k \in 1..Len(images) :
             /\ images[k].id = k
             /\ images[k].file_name = <<c, "images", PreferredImage(t, stem_of(k))>>
             /\ k < Len(images) => StrLess(stem_of(k), stem_of(k + 1))
             /\ Cardinality(anns_of(k)) = DataRows(t, stem_of(k))
       /\ \A j \in 1..Len(anns) :
             /\ anns[j].id = j
             /\ anns[j].category_id = 1
             /\ anns[j].image_id \in 1..Len(images)
             /\ j < Len(anns) => anns[j].image_id <= anns[j + 1].image_id

\* C11: in a single-category export the images are exactly the resolved stems
\* that have an image file (.jpg, else .JPG, else .png), in ascending
\* case-sensitive stem order with ids 1..n and no gap for a skipped stem;
\* annotation ids are 1..m in emission order; an annotation's image_id is the id
\* of the image whose CSV produced it and its category_id is 1; an image whose
\* CSV is missing or header-only is in images and has no annotation.
C11_SingleExportIsDense ==
    pc = "convert" =>
        \A c \in ConvCats :
            \A i \in 1..Len(conv.splits) :
                OutPath(c, conv.splits[i]) \in DOMAIN conv.out =>
                    DenseExport(target[c], c, conv.splits[i],
                                conv.out[OutPath(c, conv.splits[i])])

\* an export whose split list names B and a, where B has no image file and is
\* skipped, and a has an image and annotations
C11_WitnessSkipped ==
    /\ pc = "convert"
    /\ OutPath(Oranges, "train") \in DOMAIN conv.out
    /\ ListedStems(target[Oranges], "train") = {StemA, StemB}
    /\ BJPG \notin DOMAIN target[Oranges].images
    /\ LET export == conv.out[OutPath(Oranges, "train")]
       IN /\ Len(export.images) = 1
          /\ export.images[1].id = 1
          /\ Len(export.annotations) >= 1

-----------------------------------------------------------------------------
(* Claims about the split files the Split Fixer writes *)

\* the lines of a split file under all/ that the fixer's mapping resolves
ResolvedLines(f) == {l \in Elems(InputLines(f)) : Resolve(fixer.mapping, l).found}

\* C12: for each split file that exists under all/, sets/<split>.txt holds
\* exactly the canonical stems resolved from that file's lines, each once, in
\* ascending order, whatever the file held before; the unresolved lines are
\* collected separately and the run goes on.
C12_SplitFileIsSortedSet ==
    Fixed =>
        \A f \in DOMAIN alldir.files :
            /\ f \in DOMAIN target[Oranges].sets
            /\ LET out == target[Oranges].sets[f]
               IN /\ Elems(out) = {Resolve(fixer.mapping, l).actual : l \in ResolvedLines(f)}
                  /\ \A i \in 1..(Len(out) - 1) : StrLess(out[i], out[i + 1])
            /\ fixer.unmapped[f] =
                  SelectSeq(InputLines(f), LAMBDA l : l \notin ResolvedLines(f))

\* all/train.txt lists IMGB before imga.png: the two stems are written in
\* ascending order
C12_Witness ==
    /\ Fixed
    /\ alldir.files[SplitFile("train")] = <<IMGB, imgapng>>
    /\ target[Oranges].sets[SplitFile("train")] = <<img001, img002>>

\* C13: when the json/ directory of a category yields an empty mapping, the
\* fixer changes no file under the category's sets/ directory.
C13_EmptyMappingLeavesSets ==
    [][\A c \in Categories :
          (target[c].exists /\ FilenameMappings(target[c].json) = {<<>>})
              => target'[c].sets = target[c].sets]_vars

====
